---- MODULE Spec2Model ----
(***************************************************************************)
(* A model of icub3d_sudoku_solver (src/src/lib.rs): Board::new, the       *)
(* candidate check Board::valid, Board::solved, Board::next_unsolved and   *)
(* the backtracking search Board::solve / Board::solve_helper.             *)
(*                                                                         *)
(* The recursion of solve_helper is modelled by an explicit call stack:    *)
(* one frame per call in progress, holding the position p the call works   *)
(* on and the candidates its for-loop has not consumed yet.                *)
(***************************************************************************)
EXTENDS Integers, Sequences, FiniteSets, TLC

VARIABLES
    input,   \* the String handed to Board::new (a sequence of characters)
    res,     \* what Board::new returned: "none" (not called), "Ok", "ErrLength", "ErrChars"
    grid,    \* Board.grid, indexed 0..80 (<<>> when no Board exists)
    orig,    \* history: the grid solve() was called on
    stack,   \* the solve_helper calls in progress, outermost first
    pc,      \* where the program is
    rv,      \* the value the last finished call returned
    probe    \* the last direct call of valid: [p, n, r], or NoProbe

vars == <<input, res, grid, orig, stack, pc, rv, probe>>

(***************************************************************************)
(* Bounds of the model.                                                    *)
(***************************************************************************)
\* The largest number of cells blanked in an input grid of the search.
MaxBlanks == 4

(***************************************************************************)
(* Characters.  A character is a token; the ASCII ones stand for           *)
(* themselves, "LF" is the line feed, and "U+...." are characters whose    *)
(* UTF-8 encoding is longer than one byte.                                 *)
(***************************************************************************)
DigitChars == <<"0", "1", "2", "3", "4", "5", "6", "7", "8", "9">>

BlankChars == <<".", "_", " ">>

TwoByteChars == {"U+00E9", "U+0663"}

ThreeByteChars == {"U+20AC"}

FourByteChars == {"U+1F600"}

\* The length of a character's UTF-8 encoding.
Utf8Len(c) ==
    IF c \in TwoByteChars THEN 2
    ELSE IF c \in ThreeByteChars THEN 3
    ELSE IF c \in FourByteChars THEN 4
    ELSE 1

RECURSIVE ByteSum(_, _)
ByteSum(s, i) == IF i > Len(s) THEN 0 ELSE Utf8Len(s[i]) + ByteSum(s, i + 1)

\* String::len: the length of the string in bytes.
len(s) == ByteSum(s, 1)

\* Regex ^[ 0-9._]*$ : every character is a space, a digit, a dot or an underscore.
is_match(s) ==
    \A i \in 1..Len(s) :
        \/ s[i] = " "
        \/ \E d \in 1..10 : DigitChars[d] = s[i]
        \/ s[i] = "."
        \/ s[i] = "_"

\* c.to_string().parse::<u8>() of a digit character.
parse(c) == (CHOOSE d \in 1..10 : DigitChars[d] = c) - 1

\* Board::new: the result kind and, when Ok, the grid.
Board_new(s) ==
    IF len(s) # 81 THEN [kind |-> "ErrLength", grid |-> <<>>]
    ELSE IF ~is_match(s) THEN [kind |-> "ErrChars", grid |-> <<>>]
    ELSE [kind |-> "Ok",
          grid |-> [i \in 0..(Len(s) - 1) |->
                       IF s[i + 1] = "." \/ s[i + 1] = "_" \/ s[i + 1] = " "
                       THEN 0
                       ELSE parse(s[i + 1])]]

(***************************************************************************)
(* Board::valid, Board::solved, Board::next_unsolved.                      *)
(***************************************************************************)
\* valid with the box origin computed without the multiplication by 3.
valid_box_origin(g, p, n) ==
    LET x == p % 9
        y == p \div 9
        x0 == x \div 3
        y0 == y \div 3
    IN  /\ \A i \in 0..8 :
              /\ ~(i # x /\ g[y * 9 + i] = n)
              /\ ~(i # y /\ g[i * 9 + x] = n)
        /\ \A dx \in 0..2, dy \in 0..2 :
              \/ ((y0 + dy) = y /\ (x0 + dx) = x)
              \/ g[(y0 + dy) * 9 + x0 + dx] # n

\* valid without the scan of the containing box.
valid_no_box(g, p, n) ==
    LET x == p % 9
        y == p \div 9
    IN  \A i \in 0..8 :
            /\ ~(i # x /\ g[y * 9 + i] = n)
            /\ ~(i # y /\ g[i * 9 + x] = n)

valid(g, p, n) ==
    LET x == p % 9
        y == p \div 9
        x0 == (x \div 3) * 3
        y0 == (y \div 3) * 3
    IN  /\ \A i \in 0..8 :
              /\ ~(i # x /\ g[y * 9 + i] = n)
              /\ ~(i # y /\ g[i * 9 + x] = n)
        /\ \A dx \in 0..2, dy \in 0..2 :
              \/ ((y0 + dy) = y /\ (x0 + dx) = x)
              \/ g[(y0 + dy) * 9 + x0 + dx] # n

\* solved that only looks for empty cells.
solved_no_blank(g) == \A p \in 0..80 : g[p] # 0

solved(g) == \A p \in 0..80 : ~(g[p] = 0 \/ ~valid(g, p, g[p]))

\* next_unsolved that does not look at the cell: the next position, empty or not.
next_unsolved_any(g, p) == IF p < 81 THEN p ELSE 81

next_unsolved(g, p) ==
    IF \E i \in p..80 : g[i] = 0
    THEN CHOOSE i \in p..80 : g[i] = 0 /\ \A j \in p..(i - 1) : g[j] # 0
    ELSE 81

(***************************************************************************)
(* The inputs.                                                             *)
(***************************************************************************)
\* The solution the repository's tests expect, row-major.
BaseDigits ==
    << 1, 2, 9, 4, 3, 7, 5, 8, 6,
       8, 6, 7, 2, 5, 1, 4, 9, 3,
       5, 4, 3, 8, 9, 6, 1, 2, 7,
       7, 9, 5, 3, 6, 2, 8, 1, 4,
       2, 8, 1, 5, 7, 4, 3, 6, 9,
       4, 3, 6, 1, 8, 9, 2, 7, 5,
       9, 1, 4, 7, 2, 5, 6, 3, 8,
       6, 5, 8, 9, 1, 3, 7, 4, 2,
       3, 7, 2, 6, 4, 8, 9, 5, 1 >>

Base == [i \in 1..81 |-> DigitChars[BaseDigits[i] + 1]]

\* The positions (0-based) an input of the search may leave empty.  Cells 2, 4,
\* 20 and 22 hold 9 3 / 3 9 in two rows, two columns and two boxes, so that
\* with all four empty the grid has two completions; with 2, 6 and 29 empty
\* the digit 5 is excluded at cell 2 by the box alone.
Pool == {2, 4, 6, 20, 22, 29}

\* A clue replaced by another digit, <<position, character>>: a 9 that repeats
\* the value of cell 2 (column, box) and of cell 22 (row) unless those are
\* empty, a 1 that repeats a value of its box only, and a 5 that repeats a
\* value of its row.
Corruptions == {<<20, "9">>, <<10, "1">>, <<40, "5">>}

\* The empty-cell marker used at a position: all four markers occur.
Marker(p) == IF p % 4 = 0 THEN "0" ELSE BlankChars[p % 4]

Blanked(B) == [i \in 1..81 |-> IF (i - 1) \in B THEN Marker(i - 1) ELSE Base[i]]

Corrupted(s, c) == [i \in 1..81 |-> IF i - 1 = c[1] THEN c[2] ELSE s[i]]

BlankSets(k) == {B \in SUBSET Pool : Cardinality(B) <= k}

SolveInputs ==
    {Blanked(B) : B \in BlankSets(MaxBlanks)}
        \cup {Corrupted(Blanked(B), c) : B \in BlankSets(MaxBlanks), c \in Corruptions}

\* The grids of tests::valid.
TestValidInputs ==
    { [i \in 1..81 |-> IF i \in 2..9 THEN DigitChars[i + 1] ELSE "0"],
      [i \in 1..81 |-> IF i = 9 THEN "1" ELSE "0"],
      [i \in 1..81 |-> IF i = 10 THEN "1" ELSE "0"],
      [i \in 1..81 |-> IF i = 73 THEN "1" ELSE "0"] }

ValidInputs ==
    TestValidInputs
        \cup {Blanked(B) : B \in BlankSets(1)}
        \cup {Corrupted(Blanked(B), c) : B \in BlankSets(1), c \in Corruptions}

\* The characters tried by the inputs of Board::new.
Alphabet ==
    {"0", "7", " ", ".", "_", "a", "-", "LF", "U+00E9", "U+0663", "U+20AC", "U+1F600"}

NewPositions == {1, 41, 81}

NewInputs ==
    LET one == {[Base EXCEPT ![i] = c] : i \in NewPositions, c \in Alphabet}
    IN  one \cup {SubSeq(s, 1, 80) : s \in one} \cup {Append(s, "0") : s \in one}

NoProbe == [p |-> 81, n |-> 0, r |-> FALSE]

(***************************************************************************)
(* Board::new as a step.                                                   *)
(***************************************************************************)
InitNew ==
    /\ input \in NewInputs
    /\ res = "none"
    /\ grid = <<>>
    /\ orig = <<>>
    /\ stack = <<>>
    /\ pc = "new"
    /\ rv = FALSE
    /\ probe = NoProbe

new ==
    /\ pc = "new"
    /\ res' = Board_new(input).kind
    /\ grid' = Board_new(input).grid
    /\ pc' = IF Board_new(input).kind = "Ok" THEN "ready" ELSE "failed"
    /\ UNCHANGED <<input, orig, stack, rv, probe>>

NextNew == new

SpecNew == InitNew /\ [][NextNew]_vars

(***************************************************************************)
(* A direct call of valid on a constructed Board (as tests::valid does).   *)
(***************************************************************************)
InitValid ==
    /\ input = <<>>
    /\ res = "Ok"
    /\ \E s \in ValidInputs : grid = Board_new(s).grid
    /\ orig = grid
    /\ stack = <<>>
    /\ pc = "ready"
    /\ rv = FALSE
    /\ probe = NoProbe

call_valid ==
    /\ pc = "ready"
    /\ \E p \in 0..80, n \in 1..9 :
          probe' = [p |-> p, n |-> n, r |-> valid(grid, p, n)]
    /\ pc' = "probed"
    /\ UNCHANGED <<input, res, grid, orig, stack, rv>>

NextValid == call_valid

SpecValid == InitValid /\ [][NextValid]_vars

(***************************************************************************)
(* Board::solve and Board::solve_helper.                                   *)
(*                                                                         *)
(* pc = "ready": a Board exists and solve has not been called;             *)
(* pc = "run":   the call on top of the stack is running (at its entry or  *)
(*               at the head of its for-loop);                             *)
(* pc = "ret":   a call has just returned rv to its caller (the call on    *)
(*               top of the stack, or solve when the stack is empty);      *)
(* pc = "done":  solve has returned rv.                                    *)
(***************************************************************************)
\* The range walked from its upper end.
candidates_rev == [i \in 1..9 |-> 10 - i]

\* The values the loop `for n in 1..10` yields, in order.
candidates == [i \in 1..9 |-> i]

\* A call of solve_helper(p) that has just been entered.
Frame(p) == [p |-> p, rest |-> candidates]

Top == stack[Len(stack)]

Pop == SubSeq(stack, 1, Len(stack) - 1)

\* The caller's loop moves on to its next candidate.
Advance == [stack EXCEPT ![Len(stack)].rest = Tail(@)]

Init ==
    /\ input = <<>>
    /\ res = "Ok"
    /\ \E s \in SolveInputs : grid = Board_new(s).grid
    /\ orig = grid
    /\ stack = <<>>
    /\ pc = "ready"
    /\ rv = FALSE
    /\ probe = NoProbe

\* solve: self.solve_helper(self.next_unsolved(0))
solve ==
    /\ pc = "ready"
    /\ stack' = <<Frame(next_unsolved(grid, 0))>>
    /\ pc' = "run"
    /\ UNCHANGED <<input, res, grid, orig, rv, probe>>

\* if p == 81 { return self.solved(); }
solve_helper_end ==
    /\ pc = "run"
    /\ Top.p = 81
    /\ rv' = solved(grid)
    /\ stack' = Pop
    /\ pc' = "ret"
    /\ UNCHANGED <<input, res, grid, orig, probe>>

\* if self.valid(p, n) { self.grid[p] = n; self.solve_helper(self.next_unsolved(p + 1)) ...
solve_helper_try ==
    /\ pc = "run"
    /\ Top.p # 81
    /\ Top.rest # <<>>
    /\ valid(grid, Top.p, Head(Top.rest))
    /\ grid' = [grid EXCEPT ![Top.p] = Head(Top.rest)]
    /\ stack' = Append(stack, Frame(next_unsolved(grid', Top.p + 1)))
    /\ UNCHANGED <<input, res, orig, pc, rv, probe>>

\* valid(p, n) is false: the loop goes on to the next n.
solve_helper_skip ==
    /\ pc = "run"
    /\ Top.p # 81
    /\ Top.rest # <<>>
    /\ ~valid(grid, Top.p, Head(Top.rest))
    /\ stack' = Advance
    /\ UNCHANGED <<input, res, grid, orig, pc, rv, probe>>

\* The loop is over and the cell keeps the last value tried.
solve_helper_fail_keep ==
    /\ pc = "run"
    /\ Top.p # 81
    /\ Top.rest = <<>>
    /\ rv' = FALSE
    /\ stack' = Pop
    /\ pc' = "ret"
    /\ UNCHANGED <<input, res, grid, orig, probe>>

\* The loop is over: self.grid[p] = 0; return false;
solve_helper_fail ==
    /\ pc = "run"
    /\ Top.p # 81
    /\ Top.rest = <<>>
    /\ grid' = [grid EXCEPT ![Top.p] = 0]
    /\ rv' = FALSE
    /\ stack' = Pop
    /\ pc' = "ret"
    /\ UNCHANGED <<input, res, orig, probe>>

\* The recursive call returned true: return true;
solve_helper_found ==
    /\ pc = "ret"
    /\ stack # <<>>
    /\ rv = TRUE
    /\ stack' = Pop
    /\ UNCHANGED <<input, res, grid, orig, pc, rv, probe>>

\* The recursive call returned false and the caller gives up at once.
solve_helper_next_giveup ==
    /\ pc = "ret"
    /\ stack # <<>>
    /\ rv = FALSE
    /\ stack' = [stack EXCEPT ![Len(stack)].rest = <<>>]
    /\ pc' = "run"
    /\ UNCHANGED <<input, res, grid, orig, rv, probe>>

\* The recursive call returned false and the caller tries the same n again.
solve_helper_next_same ==
    /\ pc = "ret"
    /\ stack # <<>>
    /\ rv = FALSE
    /\ pc' = "run"
    /\ UNCHANGED <<input, res, grid, orig, stack, rv, probe>>

\* The recursive call returned false: the loop goes on to the next n.
solve_helper_next ==
    /\ pc = "ret"
    /\ stack # <<>>
    /\ rv = FALSE
    /\ stack' = Advance
    /\ pc' = "run"
    /\ UNCHANGED <<input, res, grid, orig, rv, probe>>

\* The outermost solve_helper has returned, and solve returns its value.
solve_return ==
    /\ pc = "ret"
    /\ stack = <<>>
    /\ pc' = "done"
    /\ UNCHANGED <<input, res, grid, orig, stack, rv, probe>>

Next ==
    \/ solve
    \/ solve_helper_end
    \/ solve_helper_try
    \/ solve_helper_skip
    \/ solve_helper_fail
    \/ solve_helper_found
    \/ solve_helper_next
    \/ solve_return

Spec == Init /\ [][Next]_vars

\* The program is sequential and always takes its next step.
LiveSpec == Init /\ [][Next]_vars /\ WF_vars(Next)

(***************************************************************************)
(* The vocabulary of the properties, stated without the code's index       *)
(* arithmetic.                                                             *)
(***************************************************************************)
Cells == 0..80

RowOf(p) == p \div 9

ColOf(p) == p % 9

BoxOf(p) == <<(p \div 9) \div 3, (p % 9) \div 3>>

\* The rows, the columns and the 3x3 boxes, each a set of nine cells.
Units ==
    {{p \in Cells : RowOf(p) = r} : r \in 0..8}
        \cup {{p \in Cells : ColOf(p) = c} : c \in 0..8}
        \cup {{p \in Cells : BoxOf(p) = b} : b \in (0..2) \X (0..2)}

\* The other cells of p's row, column and box.
Peers == [p \in Cells |->
             {q \in Cells : q # p /\ (RowOf(q) = RowOf(p) \/ ColOf(q) = ColOf(p)
                                      \/ BoxOf(q) = BoxOf(p))}]

\* Two cells of one unit hold the same non-zero value.
Clash(g, p, q) == q \in Peers[p] /\ g[p] # 0 /\ g[p] = g[q]

NoClash(g) == \A p \in Cells : \A q \in Peers[p] : ~Clash(g, p, q)

EmptyCells(g) == {p \in Cells : g[p] = 0}

\* Every way to fill the empty cells of o with digits 1-9 that leaves no
\* clash: none when two clues clash, and otherwise the fillings in which no
\* filled cell repeats the value of a peer (a clue or another filled cell).
Completions(o) ==
    IF ~NoClash(o) THEN {}
    ELSE {f \in [EmptyCells(o) -> 1..9] :
             \A p \in DOMAIN f : \A q \in Peers[p] :
                 (IF q \in DOMAIN f THEN f[q] ELSE o[q]) # f[p]}

\* f comes before h when the values are read in row-major order.
LexLess(f, h) ==
    \E p \in DOMAIN f :
        /\ f[p] < h[p]
        /\ \A q \in DOMAIN f : q < p => f[q] = h[q]

\* Some row of g holds the same clue twice.
RowDuplicate(g) ==
    \E p \in Cells, q \in Cells : p # q /\ RowOf(p) = RowOf(q) /\ g[p] # 0 /\ g[p] = g[q]

Done == pc = "done"

(***************************************************************************)
(* The properties.                                                         *)
(***************************************************************************)
\* C1: whenever solve returns true the grid has no zero cell, solved() is true
\* on it, and every row, column and box holds each of 1-9 (nine cells whose
\* value set is 1..9: a permutation).
C1_SolvedOnSuccess ==
    (Done /\ rv) =>
        /\ \A p \in Cells : grid[p] # 0
        /\ solved(grid)
        /\ \A u \in Units : {grid[p] : p \in u} = 1..9

\* solve has returned true on a grid that had empty cells.
C1_Witness == Done /\ rv /\ Cardinality(EmptyCells(orig)) >= 3

\* C2: whenever solve returns false the grid equals the grid solve was called
\* on; and a grid with the same clue twice in a row makes solve return false
\* with every originally empty cell at 0.
C2_RestoredOnFailure ==
    /\ (Done /\ ~rv) => grid = orig
    /\ (Done /\ RowDuplicate(orig)) =>
           (~rv /\ \A p \in Cells : orig[p] = 0 => grid[p] = 0)

\* solve has returned false on a grid with a duplicated clue in a row, after
\* filling and emptying at least three cells.
C2_Witness ==
    Done /\ ~rv /\ RowDuplicate(orig) /\ Cardinality(EmptyCells(orig)) >= 3

\* C3: the search is exhaustive: solve returns false only if the input has no
\* valid completion, and returns true whenever it has one.
C3_Exhaustive ==
    Done => (rv <=> Completions(orig) # {})

\* solve has returned false on a grid whose clues do not clash: the search
\* itself found that no completion exists.
C3_Witness ==
    Done /\ ~rv /\ NoClash(orig) /\ Cardinality(EmptyCells(orig)) >= 3

\* C5: the clues are held fixed in every state, during and after solve, and a
\* call of solve_helper works on the sentinel 81 or on a cell that was empty
\* in the input, and is entered with that cell empty.
C5_CluesFixed ==
    /\ \A p \in Cells : orig[p] # 0 => grid[p] = orig[p]
    /\ \A i \in 1..Len(stack) : stack[i].p = 81 \/ orig[stack[i].p] = 0
    /\ (pc = "run" /\ Top.p # 81 /\ Top.rest = candidates) => grid[Top.p] = 0

\* A call has skipped over clues to reach its cell, with an earlier cell filled.
C5_Witness ==
    /\ pc = "run"
    /\ Len(stack) >= 2
    /\ Top.p # 81
    /\ Top.p > stack[Len(stack) - 1].p + 1
    /\ grid[stack[1].p] # 0

\* C6 as stated: in every state no two cells of a row, column or box hold the
\* same non-zero value, whatever the input grid.
C6_NoClashEver == NoClash(grid)

\* C6 amended: in every state, two cells of a unit that hold the same non-zero
\* value are both clues of the input (no cell the search wrote clashes with
\* any cell); so a grid whose clues do not clash never holds a clash.
C6_NoClashFromSearch ==
    /\ \A p \in Cells : \A q \in Peers[p] :
           Clash(grid, p, q) => (orig[p] # 0 /\ orig[q] # 0)
    /\ NoClash(orig) => NoClash(grid)

\* The value of a failed candidate is still stored at the cell being retried.
C6_Witness ==
    /\ pc = "run"
    /\ Top.p # 81
    /\ Top.rest # <<>>
    /\ Top.rest # candidates
    /\ grid[Top.p] # 0
    /\ NoClash(orig)

\* C7: valid(p, n) is false exactly when another cell of p's row, column or
\* box holds n, whatever value p holds, and the grid is left as it was.
C7_ValidIsPeerCheck ==
    pc = "probed" =>
        /\ probe.r = ~(\E q \in Peers[probe.p] : grid[q] = probe.n)
        /\ \A v \in 0..9 : valid([grid EXCEPT ![probe.p] = v], probe.p, probe.n) = probe.r
        /\ grid = orig

\* valid has rejected a digit that only the box rules out, at a cell that
\* holds that very digit.
C7_Witness ==
    /\ pc = "probed"
    /\ ~probe.r
    /\ grid[probe.p] = probe.n
    /\ \A q \in Peers[probe.p] :
           grid[q] = probe.n => (RowOf(q) # RowOf(probe.p) /\ ColOf(q) # ColOf(probe.p))

\* C8: when solve returns true the values at the originally empty cells are
\* the first of all valid completions in row-major lexicographic order (so
\* the same input always yields the same grid).
C8_FirstCompletion ==
    (Done /\ rv) =>
        LET f == [p \in EmptyCells(orig) |-> grid[p]]
        IN  /\ f \in Completions(orig)
            /\ \A h \in Completions(orig) : ~LexLess(h, f)

\* solve has returned true on an input with more than one valid completion.
C8_Witness == Done /\ rv /\ Cardinality(Completions(orig)) > 1

\* C9: solve terminates on every input, and the positions of the calls in
\* progress strictly increase from the outermost call inwards.
C9_Terminates ==
    /\ [](\A i \in 1..(Len(stack) - 1) : stack[i].p < stack[i + 1].p)
    /\ <>Done

\* solve has returned after a search that had to give up.
C9_Witness == Done /\ ~rv /\ Cardinality(EmptyCells(orig)) = MaxBlanks

\* C10 as stated: the number of calls in progress is at most the number of
\* cells that were empty in the input.
C10_DepthAtMostEmpty == Len(stack) <= Cardinality(EmptyCells(orig))

\* C10 amended: the number of calls in progress is at most the number of cells
\* that were empty in the input plus one (the call at the sentinel 81), and so
\* at most 82.
C10_DepthAtMostEmptyPlusOne ==
    /\ Len(stack) <= Cardinality(EmptyCells(orig)) + 1
    /\ Len(stack) <= 82

\* Every empty cell has a call in progress, and so has the sentinel.
C10_Witness ==
    /\ Cardinality(EmptyCells(orig)) >= 3
    /\ Len(stack) = Cardinality(EmptyCells(orig)) + 1

\* C4: an 81-character input with a character outside {0-9 . _ space} fails
\* with the invalid-character error.
C4_InvalidCharError ==
    (pc # "new" /\ Len(input) = 81 /\ ~is_match(input)) => res = "ErrChars"

====
